---------------------------- MODULE Spec2Model ----------------------------
(***************************************************************************)
(* A model of pdf-title-rename.py: the batch driver RenamePDFsByTitle.main, *)
(* the metadata extractor _get_info (with _get_metadata and                 *)
(* _get_xmp_metadata), the interactive resolver _interactive_info_query and *)
(* the filename builder _new_filename/_sanitize.                            *)
(*                                                                          *)
(* Python strings are sequences of one-character strings.  Python values    *)
(* are records [kind, s, items]: kind "none" is None, "str" a str with      *)
(* characters s, "bytes" a bytes object that decodes as UTF-8 to s,         *)
(* "badbytes" a bytes object that does not decode, "obj" an object without  *)
(* a decode method, "ref" an indirect reference to items[1], "list" a list  *)
(* of the values items.                                                     *)
(***************************************************************************)
EXTENDS Integers, Sequences, FiniteSets, TLC

----------------------------------------------------------------------------
(* Characters and the str methods the program uses *)

UpperAlpha == <<"A","B","C","D","E","F","G","H","I","J","K","L","M",
                "N","O","P","Q","R","S","T","U","V","W","X","Y","Z">>

LowerAlpha == <<"a","b","c","d","e","f","g","h","i","j","k","l","m",
                "n","o","p","q","r","s","t","u","v","w","x","y","z">>

Digits == {"0","1","2","3","4","5","6","7","8","9"}

Whitespace == {" ", "\t", "\n"}

Range(q) == {q[i] : i \in DOMAIN q}

\* str.isalnum on one character
IsAlnum(c) == c \in Range(UpperAlpha) \cup Range(LowerAlpha) \cup Digits

\* str.lower on one character
LowerChar(c) ==
  IF c \in Range(UpperAlpha)
    THEN LowerAlpha[CHOOSE i \in DOMAIN UpperAlpha : UpperAlpha[i] = c]
    ELSE c

\* str.lower
Lower(q) == [i \in DOMAIN q |-> LowerChar(q[i])]

RECURSIVE LStrip(_)
LStrip(q) ==
  IF q # <<>> /\ Head(q) \in Whitespace THEN LStrip(Tail(q)) ELSE q

RECURSIVE RStrip(_)
RStrip(q) ==
  IF q # <<>> /\ q[Len(q)] \in Whitespace
    THEN RStrip(SubSeq(q, 1, Len(q) - 1))
    ELSE q

\* str.strip
Strip(q) == RStrip(LStrip(q))

\* str.split(): the whitespace-separated tokens of q, none of them empty
RECURSIVE SplitFrom(_, _, _)
SplitFrom(q, cur, acc) ==
  IF q = <<>>
    THEN IF cur = <<>> THEN acc ELSE Append(acc, cur)
    ELSE IF Head(q) \in Whitespace
      THEN SplitFrom(Tail(q), <<>>, IF cur = <<>> THEN acc ELSE Append(acc, cur))
      ELSE SplitFrom(Tail(q), Append(cur, Head(q)), acc)

Split(q) == SplitFrom(q, <<>>, <<>>)

\* q[:n]
Take(q, n) == SubSeq(q, 1, IF Len(q) < n THEN Len(q) ELSE n)

----------------------------------------------------------------------------
(* Python values *)

None == [kind |-> "none", s |-> <<>>, items |-> <<>>]

Str(q) == [kind |-> "str", s |-> q, items |-> <<>>]

Bytes(q) == [kind |-> "bytes", s |-> q, items |-> <<>>]

BadBytes == [kind |-> "badbytes", s |-> <<>>, items |-> <<>>]

Obj == [kind |-> "obj", s |-> <<>>, items |-> <<>>]

Ref(v) == [kind |-> "ref", s |-> <<>>, items |-> <<v>>]

List(vs) == [kind |-> "list", s |-> <<>>, items |-> vs]

\* bool(v)
Truthy(v) ==
  CASE v.kind = "none" -> FALSE
    [] v.kind \in {"str", "bytes"} -> v.s # <<>>
    [] v.kind = "list" -> v.items # <<>>
    [] OTHER -> TRUE

----------------------------------------------------------------------------
(* Filename builder *)

MaxName == 250

keep == {" ", ".", "_", "-", "EMDASH"}

KeepChar(c) == IsAlnum(c) \/ c \in keep

Sanitize(q) == Strip(SelectSeq(q, KeepChar))

DotPdf == <<".", "p", "d", "f">>

NewFilename(title, author) ==
  LET n == Sanitize(title.s)
      m == IF Truthy(author) THEN Sanitize(author.s) \o <<" ", "-", " ">> \o n ELSE n
  IN  Take(m, MaxName) \o DotPdf

----------------------------------------------------------------------------
(* Paths.  A path is [dir, name]: os.path.split is the field access, and    *)
(* os.path.join(path, n) is [dir |-> path, name |-> n].                     *)

\* the index of the last "." of q, 0 when there is none
RECURSIVE LastDot(_, _)
LastDot(q, i) == IF i = 0 THEN 0 ELSE IF q[i] = "." THEN i ELSE LastDot(q, i - 1)

\* os.path.splitext on a file name: <<root, ext>>; a leading dot starts no extension
SplitExt(q) ==
  LET p == LastDot(q, Len(q))
  IN  IF p > 1 /\ \E i \in 1..(p - 1) : q[i] # "."
        THEN <<SubSeq(q, 1, p - 1), SubSeq(q, p, Len(q))>>
        ELSE <<q, <<>> >>

Base(f) == SplitExt(f.name)[1]

Join(path, n) == [dir |-> path, name |-> n]

----------------------------------------------------------------------------
(* What the PDF parser and the XMP parser report of a file.  A document is  *)
(* [syntax, info, xmp]: syntax says that PDFDocument raises PDFSyntaxError, *)
(* info is doc.info (a sequence of dictionaries [Title, Author]) and xmp is *)
(* [present, ok, title, creator]: whether the catalog has a Metadata entry, *)
(* whether xmp_to_dict parses it, and dc:title x-default and dc:creator.    *)

Absent == [kind |-> "absent", s |-> <<>>, items |-> <<>>]

EmptyInfo == [Title |-> Absent, Author |-> Absent]

NoXmp == [present |-> FALSE, ok |-> TRUE, title |-> Absent, creator |-> Absent]

\* _resolve_objref
ResolveObjref(ref) == IF ref.kind = "ref" THEN ref.items[1] ELSE ref

\* _au_last_name: name.split()[-1]; IndexError when there is no token
AuLastNameRaises(name) == Split(name) = <<>>

AuLastName(name) == LET toks == Split(name) IN toks[Len(toks)]

\* list(filter(bool, a))
FilterTruthy(vs) == SelectSeq(vs, Truthy)

\* _get_xmp_metadata on the document kept in self.doc:
\* [raised, t, a]; raised stands for an exception that leaves the method
GetXmpMetadata(d) ==
  LET x == d.xmp
      t == IF x.title.kind = "absent" THEN None ELSE x.title
      c0 == x.creator
      c1 == IF c0.kind = "bytes" THEN Str(c0.s) ELSE c0
      c2 == IF c1.kind = "str" THEN <<c1>> ELSE c1.items
      c3 == FilterTruthy(c2)
  IN  IF ~x.ok THEN [raised |-> FALSE, t |-> None, a |-> None]
      ELSE IF c0.kind = "absent" THEN [raised |-> FALSE, t |-> t, a |-> None]
      ELSE IF c0.kind = "badbytes" THEN [raised |-> TRUE, t |-> t, a |-> None]
      ELSE IF Len(c3) > 1
        THEN IF AuLastNameRaises(c3[1].s) \/ AuLastNameRaises(c3[Len(c3)].s)
               THEN [raised |-> TRUE, t |-> t, a |-> None]
               ELSE [raised |-> FALSE, t |-> t,
                     a |-> Str(AuLastName(c3[1].s) \o <<" ">> \o AuLastName(c3[Len(c3)].s))]
      ELSE IF Len(c3) = 1
        THEN IF AuLastNameRaises(c3[1].s)
               THEN [raised |-> TRUE, t |-> t, a |-> None]
               ELSE [raised |-> FALSE, t |-> t, a |-> Str(AuLastName(c3[1].s))]
      ELSE [raised |-> FALSE, t |-> t, a |-> None]

\* _get_metadata: [info, doc]; self.doc is assigned only when PDFDocument returns
GetMetadata(d, selfdoc) ==
  IF d.syntax THEN [info |-> EmptyInfo, doc |-> selfdoc]
  ELSE [info |-> IF Len(d.info) = 0 THEN EmptyInfo ELSE d.info[1], doc |-> <<d>>]

\* the value of info[key] resolved and decoded: a str, or None when the key is
\* absent, the value has no decode method or its bytes are not UTF-8
DecodeField(v) ==
  IF v.kind = "absent" THEN None
  ELSE LET r == ResolveObjref(v) IN IF r.kind = "bytes" THEN Str(r.s) ELSE None

\* the "Could not decode ... bytes" messages of one field
DecodeMsgs(v, what) ==
  IF v.kind # "absent" /\ ResolveObjref(v).kind = "badbytes" THEN <<what>> ELSE <<>>

Untitled == <<"u", "n", "t", "i", "t", "l", "e", "d">>

\* CleanTitle without the lower-casing of line 153
CleanTitleCaseSensitive(title) ==
  IF title.kind = "str"
    THEN IF Strip(title.s) = Untitled THEN None ELSE Str(Strip(title.s))
    ELSE title

\* lines 151-154: trim a str title and drop the placeholder "untitled"
CleanTitle(title) ==
  IF title.kind = "str"
    THEN IF Lower(Strip(title.s)) = Untitled THEN None ELSE Str(Strip(title.s))
    ELSE title

\* lines 144-149: the XMP values, when truthy, replace the info dictionary's
MergeXmp(title, author, x) ==
  [title |-> IF Truthy(x.t) THEN x.t ELSE title,
   author |-> IF Truthy(x.a) THEN x.a ELSE author]

\* _get_info up to the interactive query (lines 121-154), on document d with
\* self.doc = selfdoc on entry: [raised, title, author, doc, msgs]
GetInfoResult(d, selfdoc) ==
  LET md == GetMetadata(d, selfdoc)
      title == DecodeField(md.info.Title)
      author == DecodeField(md.info.Author)
      msgs == DecodeMsgs(md.info.Title, "undecodable title") \o
              DecodeMsgs(md.info.Author, "undecodable author")
      fail == [raised |-> TRUE, title |-> None, author |-> None, doc |-> md.doc, msgs |-> msgs]
  IN  IF md.doc = <<>> THEN fail     \* self.doc: AttributeError
      ELSE IF ~md.doc[1].xmp.present
        THEN [raised |-> FALSE, title |-> CleanTitle(title), author |-> author,
              doc |-> md.doc, msgs |-> msgs]
      ELSE LET x == GetXmpMetadata(md.doc[1])
               m == MergeXmp(title, author, [t |-> ResolveObjref(x.t), a |-> ResolveObjref(x.a)])
           IN  IF x.raised THEN fail
               ELSE [raised |-> FALSE, title |-> CleanTitle(m.title), author |-> m.author,
                     doc |-> md.doc, msgs |-> msgs]

----------------------------------------------------------------------------
(* The files of the driver's runs *)

BadPdf == [dir |-> "", name |-> <<"b", "a", "d", ".", "p", "d", "f">>]
InfoPdf == [dir |-> "", name |-> <<"i", "n", "f", "o", ".", "p", "d", "f">>]
XmpPdf == [dir |-> "", name |-> <<"x", "m", "p", ".", "p", "d", "f">>]
UntitledPdf == [dir |-> "", name |-> <<"d", "r", "a", "f", "t", ".", "p", "d", "f">>]

\* a file PDFDocument rejects with PDFSyntaxError
BadDoc == [syntax |-> TRUE, info |-> <<>>, xmp |-> NoXmp]

\* info dictionary only; a second dictionary that the program never reads
InfoDoc ==
  [syntax |-> FALSE,
   info |-> << [Title |-> Bytes(<<"M", "y", " ", "P", "a", "p", "e", "r">>), Author |-> Ref(Bytes(<<"A", ".", " ", "W", "r", "i", "t", "e", "r">>))],
               [Title |-> Bytes(<<"O", "t", "h", "e", "r">>), Author |-> Absent] >>,
   xmp |-> NoXmp]

\* XMP only
XmpDoc ==
  [syntax |-> FALSE, info |-> <<>>,
   xmp |-> [present |-> TRUE, ok |-> TRUE, title |-> Str(<<"F", "i", "n", "d", "i", "n", "g", "s">>),
            creator |-> List(<<Str(<<"A", ".", " ", "O", "n", "e">>), None, Str(<<"B", ".", " ", "T", "w", "o">>)>>)]]

\* the placeholder title, an undecodable author, and an XMP stream that does not parse:
\* a file without usable metadata
UntitledDoc ==
  [syntax |-> FALSE,
   info |-> << [Title |-> Bytes(<<" ", "U", "n", "t", "i", "t", "l", "e", "d", " ">>), Author |-> BadBytes] >>,
   xmp |-> [present |-> TRUE, ok |-> FALSE, title |-> Str(<<"L", "o", "s", "t">>), creator |-> Str(<<"L", "o", "s", "t">>)]]

\* the file system the driver's runs start from
SmallFS ==
  (BadPdf :> BadDoc) @@ (InfoPdf :> InfoDoc) @@ (XmpPdf :> XmpDoc) @@
  (UntitledPdf :> UntitledDoc)

FileNames == DOMAIN SmallFS

\* the longest batch
MaxFiles == 2

Batches == UNION {[1..n -> FileNames] : n \in 1..MaxFiles}

\* args.destination: not given, not a directory, a directory
DestArgs == {<<>>, <<"nodir">>, <<"dest">>}

\* os.path.isdir at startup
IsDir(p) == p = "dest"

\* the lines the user types at the command prompt in the driver's runs
Commands == {<<"k">>, <<"t">>, <<"a">>, <<"o">>, <<"x">>}

\* the lines the user types as a new title and as a new author string there
TitleInputs == {<<" ", "N", "e", "w", " ", "@", " ", "T", "i", "t", "l", "e", " ">>}

AuthorInputs == {<<"D", "o", "e", " ">>}

\* the same three sets in the extractor's runs
RawCommands ==
  {<<"k">>, <<"K", " ">>, <<"t">>, <<" ", "T">>, <<"a">>, <<"o">>, <<"x">>, <<"k", "k">>, <<>>}

RawTitles == {<<" ", "N", "e", "w", " ", "@", " ", "T", "i", "t", "l", "e", " ">>, <<"U", "n", "t", "i", "t", "l", "e", "d">>}

RawAuthors == {<<"D", "o", "e", " ">>, <<>>}

(* The documents of the extractor's runs: every combination of these info  *)
(* dictionary entries and XMP values.                                       *)

InfoTitles ==
  {Absent, Bytes(<<"M", "y", " ", "P", "a", "p", "e", "r">>), Bytes(<<" ", "U", "n", "t", "i", "t", "l", "e", "d", " ">>), Ref(Bytes(<<"U", "N", "T", "I", "T", "L", "E", "D">>)), BadBytes, Obj}

InfoAuthors == {Absent, Bytes(<<"A", ".", " ", "W", "r", "i", "t", "e", "r">>), Bytes(<<>>), BadBytes}

XmpTitles == {Absent, Str(<<"F", "i", "n", "d", "i", "n", "g", "s">>), Str(<<"u", "n", "t", "i", "t", "l", "e", "d", " ">>), Str(<<>>)}

XmpCreators ==
  {Absent, Str(<<"J", "a", "n", "e", " ", "D", "o", "e">>), Bytes(<<"J", "a", "n", "e", " ", "D", "o", "e">>), Str(<<" ">>), List(<<None, Str(<<>>)>>),
   List(<<Str(<<"A", ".", " ", "O", "n", "e">>), None, Str(<<"B", ".", " ", "T", "w", "o">>)>>)}

Infos == {<<>>} \cup {<<[Title |-> ti, Author |-> au]>> : ti \in InfoTitles, au \in InfoAuthors}

Xmps ==
  {NoXmp, [present |-> TRUE, ok |-> FALSE, title |-> Str(<<"L", "o", "s", "t">>), creator |-> Str(<<"L", "o", "s", "t">>)]}
  \cup {[present |-> TRUE, ok |-> TRUE, title |-> ti, creator |-> cr] :
          ti \in XmpTitles, cr \in XmpCreators}

AllDocs == {BadDoc} \cup {[syntax |-> FALSE, info |-> i, xmp |-> x] : i \in Infos, x \in Xmps}

OnePdf == [dir |-> "", name |-> <<"o", "n", "e", ".", "p", "d", "f">>]

----------------------------------------------------------------------------
(* The state of a run *)

VARIABLES
  pdf_files,    \* self.pdf_files: the batch, a sequence of paths
  dry_run,      \* self.dry_run
  interactive,  \* self.interactive
  destArg,      \* args.destination: <<>> when not given, else <<directory>>
  destination,  \* self.destination: <<>> for None, else <<directory>>
  doc,          \* self.doc: <<>> while the attribute is unset, else <<document>>
  fs,           \* the file system: path -> document, for the paths that exist
  fs0,          \* the file system the run started from
  idx,          \* the position of the for loop: pdf_files[idx] is the current file
  pc,           \* the place of the run in main
  title,        \* title of _get_info, then of main
  author,       \* author of _get_info, then of main
  t,            \* t of _interactive_info_query
  a,            \* a of _interactive_info_query
  ans,          \* ans of _interactive_info_query
  line,         \* the last line read from the user
  newf,         \* newf of main
  Nrenamed,
  Nfiled,
  Nmissing,
  Nerrors,
  out,          \* the per-file lines printed: [msg, arg]
  outcome,      \* how each finished file ended
  summary,      \* the totals printed at the end: <<>> until then
  exitcode      \* <<>> while running, <<0>> after main returned, <<1>> after a traceback

vars == <<pdf_files, dry_run, interactive, destArg, destination, doc, fs, fs0, idx, pc,
          title, author, t, a, ans, line, newf, Nrenamed, Nfiled, Nmissing, Nerrors,
          out, outcome, summary, exitcode>>

config == <<pdf_files, dry_run, interactive, destArg, destination, fs0>>

counters == <<Nrenamed, Nfiled, Nmissing, Nerrors>>

query == <<t, a, ans, line>>

Ntot == Len(pdf_files)

NoPath == [dir |-> "", name |-> <<>>]

Msg(m, f) == [msg |-> m, arg |-> f]

\* InitDestination without the os.path.isdir test of line 45
InitDestinationUnchecked(arg) == IF arg # <<>> /\ arg[1] # "" THEN arg ELSE <<>>

\* __init__, lines 43-48
InitDestination(arg) ==
  IF arg # <<>> /\ arg[1] # "" /\ IsDir(arg[1]) THEN arg ELSE <<>>

\* the state after construction, for a batch over the file system files
InitWith(batch, files) ==
  /\ pdf_files = batch
  /\ dry_run \in BOOLEAN
  /\ interactive \in BOOLEAN
  /\ destArg \in DestArgs
  /\ destination = InitDestination(destArg)
  /\ doc = <<>>
  /\ fs = files
  /\ fs0 = files
  /\ idx = 0
  /\ pc = "loop"
  /\ title = None
  /\ author = None
  /\ t = None
  /\ a = None
  /\ ans = <<>>
  /\ line = <<>>
  /\ newf = NoPath
  /\ Nrenamed = 0
  /\ Nfiled = 0
  /\ Nmissing = 0
  /\ Nerrors = 0
  /\ out = <<>>
  /\ outcome = <<>>
  /\ summary = <<>>
  /\ exitcode = <<>>

Init == \E batch \in Batches : InitWith(batch, SmallFS)

----------------------------------------------------------------------------
(* main, lines 58-64, and _get_info, lines 120-157 *)

\* an exception nothing catches: the traceback ends the process
Traceback ==
  /\ pc' = "crashed"
  /\ exitcode' = <<1>>

\* open(fn) raises: the file does not exist
OpenFails ==
  /\ pc = "loop"
  /\ idx < Ntot
  /\ pdf_files[idx + 1] \notin DOMAIN fs
  /\ idx' = idx + 1
  /\ out' = Append(out, Msg("processing", pdf_files[idx + 1]))
  /\ Traceback
  /\ UNCHANGED <<config, doc, fs, title, author, query, newf, counters, outcome, summary>>

\* the extraction raises: self.doc is unset, or _get_xmp_metadata raises
GetInfoRaises ==
  /\ pc = "loop"
  /\ idx < Ntot
  /\ pdf_files[idx + 1] \in DOMAIN fs
  /\ LET f == pdf_files[idx + 1]
         r == GetInfoResult(fs[f], doc)
     IN  /\ r.raised
         /\ doc' = r.doc
         /\ out' = Append(out, Msg("processing", f)) \o [i \in DOMAIN r.msgs |-> Msg(r.msgs[i], f)]
  /\ idx' = idx + 1
  /\ Traceback
  /\ UNCHANGED <<config, fs, title, author, query, newf, counters, outcome, summary>>

\* the extraction returns, or hands its result to the interactive query
GetInfo ==
  /\ pc = "loop"
  /\ idx < Ntot
  /\ pdf_files[idx + 1] \in DOMAIN fs
  /\ LET f == pdf_files[idx + 1]
         r == GetInfoResult(fs[f], doc)
     IN  /\ ~r.raised
         /\ doc' = r.doc
         /\ out' = Append(out, Msg("processing", f)) \o [i \in DOMAIN r.msgs |-> Msg(r.msgs[i], f)]
         /\ title' = r.title
         /\ author' = r.author
         /\ IF interactive
              THEN pc' = "ask" /\ t' = r.title /\ a' = r.author
              ELSE pc' = "plan" /\ UNCHANGED <<t, a>>
  /\ idx' = idx + 1
  /\ UNCHANGED <<config, fs, ans, line, newf, counters, outcome, summary, exitcode>>

----------------------------------------------------------------------------
(* _interactive_info_query, lines 166-186 *)

\* Ri without the lower-casing
RiCaseSensitive(raw) == Strip(raw)

\* ri: input(p).lower().strip()
Ri(raw) == Strip(Lower(raw))

\* lines 175 and 185: read the next command, one of cmds
Read(cmds) ==
  /\ pc = "ask"
  /\ \E raw \in cmds :
       /\ line' = raw
       /\ ans' = Ri(raw)
  /\ pc' = "while"
  /\ UNCHANGED <<config, doc, fs, idx, title, author, t, a, newf, counters, out, outcome,
                 summary, exitcode>>

\* line 176 with ans = "k", line 186, and the assignment of line 157
Keep ==
  /\ pc = "while"
  /\ ans = <<"k">>
  /\ title' = t
  /\ author' = a
  /\ pc' = "plan"
  /\ t' = None
  /\ a' = None
  /\ ans' = <<>>
  /\ line' = <<>>
  /\ UNCHANGED <<config, doc, fs, idx, newf, counters, out, outcome, summary, exitcode>>

\* lines 177-178, the new title one of texts
Retitle(texts) ==
  /\ pc = "while"
  /\ ans = <<"t">>
  /\ \E text \in texts :
       /\ line' = text
       /\ t' = Str(Strip(text))
  /\ pc' = "ask"
  /\ UNCHANGED <<config, doc, fs, idx, title, author, a, ans, newf, counters, out, outcome,
                 summary, exitcode>>

\* lines 179-180, the new author string one of texts
Reauthor(texts) ==
  /\ pc = "while"
  /\ ans = <<"a">>
  /\ \E text \in texts :
       /\ line' = text
       /\ a' = Str(Strip(text))
  /\ pc' = "ask"
  /\ UNCHANGED <<config, doc, fs, idx, title, author, t, ans, newf, counters, out, outcome,
                 summary, exitcode>>

ReadCommand == Read(Commands)

NewTitle == Retitle(TitleInputs)

NewAuthor == Reauthor(AuthorInputs)

ReadRawCommand == Read(RawCommands)

NewRawTitle == Retitle(RawTitles)

NewRawAuthor == Reauthor(RawAuthors)

\* lines 181-182: the viewer is started; nothing of the run changes
OpenViewer ==
  /\ pc = "while"
  /\ ans = <<"o">>
  /\ pc' = "ask"
  /\ UNCHANGED <<config, doc, fs, idx, title, author, query, newf, counters, out, outcome,
                 summary, exitcode>>

\* lines 183-184
BadOption ==
  /\ pc = "while"
  /\ ans \notin {<<"k">>, <<"t">>, <<"a">>, <<"o">>}
  /\ pc' = "ask"
  /\ UNCHANGED <<config, doc, fs, idx, title, author, query, newf, counters, out, outcome,
                 summary, exitcode>>

----------------------------------------------------------------------------
(* main, lines 66-107 *)

\* lines 67-68: the base filename stands in for a missing title
FallbackTitle(f, ti, au) == IF Truthy(au) /\ ~Truthy(ti) THEN Str(Base(f)) ELSE ti

\* line 75
Target(f, ti, au) == Join(f.dir, NewFilename(ti, au))

\* lines 70-73
ReportMissing ==
  /\ pc = "plan"
  /\ LET f == pdf_files[idx]
         ti == FallbackTitle(f, title, author)
     IN  /\ ~(Truthy(author) \/ Truthy(ti))
         /\ title' = ti
         /\ out' = Append(out, Msg("missing", f))
  /\ Nmissing' = Nmissing + 1
  /\ outcome' = Append(outcome, "missing")
  /\ pc' = "loop"
  /\ UNCHANGED <<config, doc, fs, idx, author, query, newf, Nrenamed, Nfiled, Nerrors,
                 summary, exitcode>>

\* PlanRename without the dry-run test of lines 77-78
PlanRenameIgnoresDryRun ==
  /\ pc = "plan"
  /\ LET f == pdf_files[idx]
         ti == IF Truthy(author) /\ ~Truthy(title) THEN Str(Base(f)) ELSE title
     IN  /\ Truthy(author) \/ Truthy(ti)
         /\ title' = ti
         /\ newf' = Join(f.dir, NewFilename(ti, author))
         /\ out' = Append(out, Msg("renaming", Join(f.dir, NewFilename(ti, author))))
  /\ pc' = "rename"
  /\ UNCHANGED <<config, doc, fs, idx, author, query, counters, outcome, summary, exitcode>>

\* lines 75-78
PlanRename ==
  /\ pc = "plan"
  /\ LET f == pdf_files[idx]
         ti == FallbackTitle(f, title, author)
     IN  /\ Truthy(author) \/ Truthy(ti)
         /\ title' = ti
         /\ newf' = Target(f, ti, author)
         /\ out' = Append(out, Msg("renaming", Target(f, ti, author)))
  /\ IF dry_run
       THEN pc' = "loop" /\ outcome' = Append(outcome, "dry")
       ELSE pc' = "rename" /\ UNCHANGED outcome
  /\ UNCHANGED <<config, doc, fs, idx, author, query, counters, summary, exitcode>>

\* the file system after the file at src was moved to dst, replacing what was there
Moved(files, src, dst) ==
  [p \in (DOMAIN files \ {src}) \cup {dst} |-> IF p = dst THEN files[src] ELSE files[p]]

\* lines 80-81 and 86-87: os.rename returns
RenameOk ==
  /\ pc = "rename"
  /\ pdf_files[idx] \in DOMAIN fs
  /\ fs' = Moved(fs, pdf_files[idx], newf)
  /\ Nrenamed' = Nrenamed + 1
  /\ IF destination # <<>>
       THEN pc' = "file" /\ UNCHANGED outcome
       ELSE pc' = "loop" /\ outcome' = Append(outcome, "renamed")
  /\ UNCHANGED <<config, doc, idx, title, author, query, newf, Nfiled, Nmissing, Nerrors,
                 out, summary, exitcode>>

\* RenameFails counting the failure as a rename
RenameFailsCountedRenamed ==
  /\ pc = "rename"
  /\ out' = Append(out, Msg("rename error", pdf_files[idx]))
  /\ Nrenamed' = Nrenamed + 1
  /\ outcome' = Append(outcome, "rename failed")
  /\ pc' = "loop"
  /\ UNCHANGED <<config, doc, fs, idx, title, author, query, newf, Nerrors, Nfiled, Nmissing,
                 summary, exitcode>>

\* lines 82-85: os.rename raises OSError
RenameFails ==
  /\ pc = "rename"
  /\ out' = Append(out, Msg("rename error", pdf_files[idx]))
  /\ Nerrors' = Nerrors + 1
  /\ outcome' = Append(outcome, "rename failed")
  /\ pc' = "loop"
  /\ UNCHANGED <<config, doc, fs, idx, title, author, query, newf, Nrenamed, Nfiled, Nmissing,
                 summary, exitcode>>

\* lines 89-92: mv returns 0
FileOk ==
  /\ pc = "file"
  /\ newf \in DOMAIN fs
  /\ fs' = Moved(fs, newf, Join(destination[1], newf.name))
  /\ out' = Append(out, Msg("filed", Join(destination[1], newf.name)))
  /\ Nfiled' = Nfiled + 1
  /\ outcome' = Append(outcome, "filed")
  /\ pc' = "loop"
  /\ UNCHANGED <<config, doc, idx, title, author, query, newf, Nrenamed, Nmissing, Nerrors,
                 summary, exitcode>>

\* FileFails without the count of line 95
FileFailsUncounted ==
  /\ pc = "file"
  /\ out' = Append(out, Msg("move error", newf))
  /\ outcome' = Append(outcome, "move failed")
  /\ pc' = "loop"
  /\ UNCHANGED <<config, doc, fs, idx, title, author, query, newf, counters, summary, exitcode>>

\* lines 93-95: mv returns another status
FileFails ==
  /\ pc = "file"
  /\ out' = Append(out, Msg("move error", newf))
  /\ Nerrors' = Nerrors + 1
  /\ outcome' = Append(outcome, "move failed")
  /\ pc' = "loop"
  /\ UNCHANGED <<config, doc, fs, idx, title, author, query, newf, Nrenamed, Nfiled, Nmissing,
                 summary, exitcode>>

\* lines 97-107
Summary ==
  /\ pc = "loop"
  /\ idx = Ntot
  /\ summary' = << [dry |-> dry_run, total |-> Ntot, renamed |-> Nrenamed,
                    filed |-> IF destination # <<>> THEN <<Nfiled>> ELSE <<>>,
                    missing |-> Nmissing, errors |-> Nerrors] >>
  /\ exitcode' = <<0>>
  /\ pc' = "done"
  /\ UNCHANGED <<config, doc, fs, idx, title, author, query, newf, counters, out, outcome>>

Next ==
  \/ OpenFails
  \/ GetInfoRaises
  \/ GetInfo
  \/ ReadCommand
  \/ Keep
  \/ NewTitle
  \/ NewAuthor
  \/ OpenViewer
  \/ BadOption
  \/ ReportMissing
  \/ PlanRename
  \/ RenameOk
  \/ RenameFails
  \/ FileOk
  \/ FileFails
  \/ Summary

Spec == Init /\ [][Next]_vars

(* The extractor's runs: one file holding any document of AllDocs, filed to *)
(* a destination, and the user typing any of the raw lines.                 *)

InitInfo ==
  /\ \E d \in AllDocs : InitWith(<<OnePdf>>, (OnePdf :> d))
  /\ ~dry_run
  /\ destArg = <<"dest">>

NextInfo ==
  \/ GetInfoRaises
  \/ GetInfo
  \/ ReadRawCommand
  \/ Keep
  \/ NewRawTitle
  \/ NewRawAuthor
  \/ OpenViewer
  \/ BadOption
  \/ ReportMissing
  \/ PlanRename
  \/ RenameOk
  \/ RenameFails
  \/ FileOk
  \/ FileFails
  \/ Summary

SpecInfo == InitInfo /\ [][NextInfo]_vars

----------------------------------------------------------------------------
(* Properties *)

\* the file the loop is at
CurFile == pdf_files[idx]

\* title and author hold what the extractor derived from the metadata of the
\* current file: the query has not returned, or there is no query
Extracted == pc \in {"ask", "while"} \/ (pc = "plan" /\ ~interactive)

\* the number of lines of a kind printed so far
CountMsg(m) == Cardinality({i \in DOMAIN out : out[i].msg = m})

\* a str that, trimmed and lower-cased, is "untitled"
IsUntitled(v) == v.kind = "str" /\ Lower(Strip(v.s)) = Untitled

\* C1: main stops only when the input list is exhausted, every file having been
\* processed, and then returns exit code 0
BatchRunsToTheEnd ==
  exitcode # <<>> => (exitcode = <<0>> /\ idx = Ntot /\ Len(outcome) = Ntot)

\* C5: a file the parser rejects with a syntax error is not fatal, at any
\* position of the batch: the run does not end with a traceback at that file
ParseFailureIsNotFatal ==
  (idx > 0 /\ CurFile \in DOMAIN fs /\ fs[CurFile].syntax) => pc # "crashed"

\* C6: what the extractor yields for a file does not depend on the files before
\* it: it is what a fresh renamer (self.doc unset) yields for the same file
IndependentOfEarlierFiles ==
  /\ Extracted =>
       LET r == GetInfoResult(fs[CurFile], <<>>)
       IN  ~r.raised /\ title = r.title /\ author = r.author
  /\ (pc = "crashed" /\ CurFile \in DOMAIN fs) => GetInfoResult(fs[CurFile], <<>>).raised

\* C7: per field the XMP value of the file, when present and non-empty, stands,
\* and otherwise the info dictionary's value; a file without an XMP stream, or
\* with one that does not parse, keeps both info dictionary values
XmpPrecedencePerField ==
  Extracted =>
    LET d == fs[CurFile]
        info == IF d.syntax \/ d.info = <<>> THEN EmptyInfo ELSE d.info[1]
        x == IF ~d.syntax /\ d.xmp.present /\ d.xmp.ok
               THEN GetXmpMetadata(d)
               ELSE [raised |-> FALSE, t |-> None, a |-> None]
        nonempty(v) == v.kind = "str" /\ v.s # <<>>
    IN  /\ title = CleanTitle(IF nonempty(x.t) THEN x.t ELSE DecodeField(info.Title))
        /\ author = IF nonempty(x.a) THEN x.a ELSE DecodeField(info.Author)

\* C8, as claimed: the title _get_info returns is never "untitled", with or
\* without the interactive mode
ReturnedTitleNeverUntitled == pc = "plan" => ~IsUntitled(title)

\* C8, amended: the title _get_info derives from the info dictionary and the
\* XMP stream, which it returns without the interactive mode and hands to the
\* query with it, is never "untitled"
ExtractedTitleNeverUntitled == Extracted => ~IsUntitled(title)

\* C8: an info dictionary title " Untitled " was read and dropped
UntitledWasDropped ==
  /\ pc = "plan"
  /\ ~interactive
  /\ CurFile \in DOMAIN fs
  /\ fs[CurFile].info # <<>>
  /\ fs[CurFile].info[1].Title = Bytes(<<" ", "U", "n", "t", "i", "t", "l", "e", "d", " ">>)
  /\ ~fs[CurFile].xmp.present
  /\ title = None

\* C9, as claimed: the query returns exactly when the line entered is "k", with
\* the current title and author; "t" and "a" overwrite one of them with the
\* trimmed text; every other line changes neither and prompts again
QueryObeysLiteralCommands ==
  [][pc = "while" =>
       /\ (pc' = "plan") <=> (line = <<"k">>)
       /\ line = <<"k">> => title' = t /\ author' = a
       /\ line = <<"t">> => t' = Str(Strip(line')) /\ a' = a /\ pc' = "ask"
       /\ line = <<"a">> => a' = Str(Strip(line')) /\ t' = t /\ pc' = "ask"
       /\ line \notin {<<"k">>, <<"t">>, <<"a">>} => t' = t /\ a' = a /\ pc' = "ask"
    ]_vars

\* C9, amended: the same of the command, which is the line entered trimmed and
\* lower-cased
QueryObeysCommands ==
  [][/\ pc = "ask" => pc' = "while" /\ ans' = Strip(Lower(line')) /\ t' = t /\ a' = a
     /\ pc = "while" =>
          /\ (pc' = "plan") <=> (ans = <<"k">>)
          /\ ans = <<"k">> => title' = t /\ author' = a
          /\ ans = <<"t">> => t' = Str(Strip(line')) /\ a' = a /\ pc' = "ask"
          /\ ans = <<"a">> => a' = Str(Strip(line')) /\ t' = t /\ pc' = "ask"
          /\ ans \notin {<<"k">>, <<"t">>, <<"a">>} => t' = t /\ a' = a /\ pc' = "ask"
          /\ ans # <<"k">> => title' = title /\ author' = author
    ]_vars

\* C9: the query returned a title and an author the user typed
QueryReturnedUserText ==
  /\ pc = "plan"
  /\ interactive
  /\ title = Str(<<"N", "e", "w", " ", "@", " ", "T", "i", "t", "l", "e">>)
  /\ author = Str(<<"D", "o", "e">>)

\* the rename of the current file was planned and its line printed, and
\* nothing was printed since
JustPlanned ==
  \/ pc = "rename"
  \/ pc = "loop" /\ idx > 0 /\ Len(outcome) = idx /\ outcome[idx] = "dry"

FilingFollowsRename ==
  /\ [](/\ Nfiled <= Nrenamed
        /\ pc = "file" =>
             /\ ~dry_run
             /\ destArg # <<>> /\ IsDir(destArg[1]) /\ destination = destArg
             /\ newf \in DOMAIN fs)
  /\ [][/\ pc' = "file" =>
             /\ pc = "rename"
             /\ Nrenamed' = Nrenamed + 1
             /\ newf' = newf
             /\ fs'[newf] = fs[CurFile]
        /\ Nfiled' # Nfiled =>
             /\ pc = "file"
             /\ Nfiled' = Nfiled + 1
             /\ Join(destination[1], newf.name) \in DOMAIN fs'
             /\ fs'[Join(destination[1], newf.name)] = fs[newf]
             /\ newf \notin DOMAIN fs'
        /\ (pc = "file" /\ fs' # fs) => Nfiled' = Nfiled + 1
       ]_vars

\* C3: a file was renamed and filed
FiledOne ==
  /\ pc = "loop"
  /\ Nfiled = 1
  /\ Nrenamed = 1
  /\ Join("dest", newf.name) \in DOMAIN fs
  /\ newf \notin DOMAIN fs

\* C4: when the move fails after a rename that succeeded, errors grows by one,
\* renamed keeps its increment, filed is unchanged, the file stays under its new
\* name, and the loop goes on to the next file
FilingFailureKeepsRename ==
  [][(pc = "file" /\ Nfiled' = Nfiled) =>
       /\ Nerrors' = Nerrors + 1
       /\ Nrenamed' = Nrenamed
       /\ Nrenamed >= 1
       /\ fs' = fs
       /\ newf \in DOMAIN fs
       /\ pc' = "loop"
       /\ idx' = idx
    ]_vars

\* C4: the move of the first file failed and the second file was taken up
MoveFailedThenNextFile ==
  /\ idx = 2
  /\ outcome = <<"move failed">>
  /\ Nrenamed = 1
  /\ Nerrors = 1
  /\ Nfiled = 0
  /\ pc \in {"plan", "ask"}

\* C10: no counter ever decreases; a file changes the counters in one of four
\* ways (missing + 1; nothing; errors + 1; renamed + 1, then filed + 1 or
\* errors + 1 or nothing); renamed + missing <= files taken up, filed <= renamed,
\* errors <= files taken up; and the totals printed at the end of a run that is
\* no dry run satisfy renamed + missing + rename failures = total
CounterAccounting ==
  /\ [](/\ Nrenamed + Nmissing <= idx
        /\ Nfiled <= Nrenamed
        /\ Nerrors <= idx
        /\ Nmissing = CountMsg("missing")
        /\ Nerrors = CountMsg("rename error") + CountMsg("move error")
        /\ dry_run => Nrenamed = 0 /\ Nfiled = 0 /\ Nerrors = 0
        /\ (pc = "done" /\ ~dry_run) =>
             /\ Nrenamed + Nmissing + CountMsg("rename error") = Ntot
             /\ summary[1].total = summary[1].renamed + summary[1].missing
                                     + CountMsg("rename error"))
  /\ [][/\ Nrenamed' \in {Nrenamed, Nrenamed + 1}
        /\ Nfiled' \in {Nfiled, Nfiled + 1}
        /\ Nmissing' \in {Nmissing, Nmissing + 1}
        /\ Nerrors' \in {Nerrors, Nerrors + 1}
        /\ (Nrenamed' - Nrenamed) + (Nfiled' - Nfiled) + (Nmissing' - Nmissing)
             + (Nerrors' - Nerrors) <= 1
        /\ Nmissing' # Nmissing => pc = "plan" /\ pc' = "loop"
        /\ Nrenamed' # Nrenamed => pc = "rename" /\ pc' \in {"file", "loop"}
        /\ Nfiled' # Nfiled => pc = "file" /\ pc' = "loop"
        /\ Nerrors' # Nerrors => pc \in {"rename", "file"} /\ pc' = "loop"
       ]_vars

\* C10: a run ended with a rename whose filing failed and a rename that failed
TwoErrorsOneRename ==
  /\ pc = "done"
  /\ ~dry_run
  /\ Nrenamed = 1
  /\ Nfiled = 0
  /\ Nmissing = 0
  /\ Nerrors = 2

============================================================================
